---- MODULE Spec2Model ----
(***************************************************************************)
(* Model of homework.py: a poller that asks the homework-review API for    *)
(* status changes and forwards them, or the errors met, to a Telegram chat.*)
(*                                                                         *)
(* Text.  Python strings are modelled as TLA+ strings.  The module text is *)
(* ASCII, so every non-ASCII character of a Python literal is written as   *)
(* its escape \uXXXX (the text produced by str.encode('unicode_escape')); *)
(* the comment above each literal gives the original.  ASCII characters    *)
(* stand for themselves.                                                   *)
(***************************************************************************)
EXTENDS Integers, Sequences, FiniteSets, TLC

(***************************************************************************)
(* Module constants, homework.py lines 18-26.                              *)
(***************************************************************************)
RETRY_PERIOD == 600

ENDPOINT == "https://practicum.yandex.ru/api/user_api/homework_statuses/"

\* http.HTTPStatus.OK
HTTP_OK == 200

\* 'Работа проверена: ревьюеру всё понравилось. Ура!'
VERDICT_APPROVED ==
    "\\u0420\\u0430\\u0431\\u043e\\u0442\\u0430 "
    \o "\\u043f\\u0440\\u043e\\u0432\\u0435\\u0440\\u0435\\u043d\\u0430: "
    \o "\\u0440\\u0435\\u0432\\u044c\\u044e\\u0435\\u0440\\u0443 "
    \o "\\u0432\\u0441\\u0451 "
    \o "\\u043f\\u043e\\u043d\\u0440\\u0430\\u0432\\u0438\\u043b\\u043e\\u0441\\u044c. "
    \o "\\u0423\\u0440\\u0430!"

\* 'Работа взята на проверку ревьюером.'
VERDICT_REVIEWING ==
    "\\u0420\\u0430\\u0431\\u043e\\u0442\\u0430 "
    \o "\\u0432\\u0437\\u044f\\u0442\\u0430 \\u043d\\u0430 "
    \o "\\u043f\\u0440\\u043e\\u0432\\u0435\\u0440\\u043a\\u0443 "
    \o "\\u0440\\u0435\\u0432\\u044c\\u044e\\u0435\\u0440\\u043e\\u043c."

\* 'Работа проверена: у ревьюера есть замечания.'
VERDICT_REJECTED ==
    "\\u0420\\u0430\\u0431\\u043e\\u0442\\u0430 "
    \o "\\u043f\\u0440\\u043e\\u0432\\u0435\\u0440\\u0435\\u043d\\u0430: "
    \o "\\u0443 \\u0440\\u0435\\u0432\\u044c\\u044e\\u0435\\u0440\\u0430 "
    \o "\\u0435\\u0441\\u0442\\u044c "
    \o "\\u0437\\u0430\\u043c\\u0435\\u0447\\u0430\\u043d\\u0438\\u044f."

\* HOMEWORK_VERDICTS with a fault: two sentences change places.
HOMEWORK_VERDICTS_swapped ==
    [approved |-> VERDICT_APPROVED,
     reviewing |-> VERDICT_REJECTED,
     rejected |-> VERDICT_REVIEWING]

HOMEWORK_VERDICTS ==
    [approved |-> VERDICT_APPROVED,
     reviewing |-> VERDICT_REVIEWING,
     rejected |-> VERDICT_REJECTED]

(***************************************************************************)
(* The literal parts of the f-strings of the program.                      *)
(***************************************************************************)
\* 'Ошибка при запросе к API: '
TXT_REQUEST_FAILED ==
    "\\u041e\\u0448\\u0438\\u0431\\u043a\\u0430 \\u043f\\u0440\\u0438 "
    \o "\\u0437\\u0430\\u043f\\u0440\\u043e\\u0441\\u0435 \\u043a API: "

\* 'Эндпоинт '
TXT_ENDPOINT ==
    "\\u042d\\u043d\\u0434\\u043f\\u043e\\u0438\\u043d\\u0442 "

\* ' недоступен. ' + 20 spaces (the continuation line's indent) + 'Код ответа: '
TXT_UNAVAILABLE ==
    " "
    \o "\\u043d\\u0435\\u0434\\u043e\\u0441\\u0442\\u0443\\u043f\\u0435\\u043d. "
    \o "                    \\u041a\\u043e\\u0434 "
    \o "\\u043e\\u0442\\u0432\\u0435\\u0442\\u0430: "

\* 'Ошибка парсинга JSON: '
TXT_JSON_FAILED ==
    "\\u041e\\u0448\\u0438\\u0431\\u043a\\u0430 "
    \o "\\u043f\\u0430\\u0440\\u0441\\u0438\\u043d\\u0433\\u0430 JSON: "

\* 'Ответ API должен быть словарем, получен '
TXT_NOT_DICT ==
    "\\u041e\\u0442\\u0432\\u0435\\u0442 API "
    \o "\\u0434\\u043e\\u043b\\u0436\\u0435\\u043d "
    \o "\\u0431\\u044b\\u0442\\u044c "
    \o "\\u0441\\u043b\\u043e\\u0432\\u0430\\u0440\\u0435\\u043c, "
    \o "\\u043f\\u043e\\u043b\\u0443\\u0447\\u0435\\u043d "

\* 'Отсутствуют ключи в ответе API: '
TXT_RESPONSE_KEYS ==
    "\\u041e\\u0442\\u0441\\u0443\\u0442\\u0441\\u0442\\u0432\\u0443\\u044e\\u0442 "
    \o "\\u043a\\u043b\\u044e\\u0447\\u0438 \\u0432 "
    \o "\\u043e\\u0442\\u0432\\u0435\\u0442\\u0435 API: "

\* 'homeworks должен быть списком, получен '
TXT_NOT_LIST ==
    "homeworks \\u0434\\u043e\\u043b\\u0436\\u0435\\u043d "
    \o "\\u0431\\u044b\\u0442\\u044c "
    \o "\\u0441\\u043f\\u0438\\u0441\\u043a\\u043e\\u043c, "
    \o "\\u043f\\u043e\\u043b\\u0443\\u0447\\u0435\\u043d "

\* 'Отсутствуют ключи в домашней работе: '
TXT_HOMEWORK_KEYS ==
    "\\u041e\\u0442\\u0441\\u0443\\u0442\\u0441\\u0442\\u0432\\u0443\\u044e\\u0442 "
    \o "\\u043a\\u043b\\u044e\\u0447\\u0438 \\u0432 "
    \o "\\u0434\\u043e\\u043c\\u0430\\u0448\\u043d\\u0435\\u0439 "
    \o "\\u0440\\u0430\\u0431\\u043e\\u0442\\u0435: "

\* 'Неизвестный статус: '
TXT_UNKNOWN_STATUS ==
    "\\u041d\\u0435\\u0438\\u0437\\u0432\\u0435\\u0441\\u0442\\u043d\\u044b\\u0439 "
    \o "\\u0441\\u0442\\u0430\\u0442\\u0443\\u0441: "

\* 'Изменился статус проверки работы "'
TXT_STATUS_CHANGED ==
    "\\u0418\\u0437\\u043c\\u0435\\u043d\\u0438\\u043b\\u0441\\u044f "
    \o "\\u0441\\u0442\\u0430\\u0442\\u0443\\u0441 "
    \o "\\u043f\\u0440\\u043e\\u0432\\u0435\\u0440\\u043a\\u0438 "
    \o "\\u0440\\u0430\\u0431\\u043e\\u0442\\u044b \""

\* 'Сбой в работе программы: '
TXT_FAILURE ==
    "\\u0421\\u0431\\u043e\\u0439 \\u0432 "
    \o "\\u0440\\u0430\\u0431\\u043e\\u0442\\u0435 "
    \o "\\u043f\\u0440\\u043e\\u0433\\u0440\\u0430\\u043c\\u043c\\u044b: "


(***************************************************************************)
(* Python values.  A value carries the name of its Python type, as         *)
(* type(x).__name__ gives it: JSON numbers are int, strings str, arrays    *)
(* list and objects dict.  A dict is a function from its keys to values.   *)
(* None is the empty tuple and a present optional string s the tuple <<s>>.*)
(***************************************************************************)
PyInt(n) == [type |-> "int", val |-> n]
PyStr(s) == [type |-> "str", val |-> s]
PyList(q) == [type |-> "list", val |-> q]
PyDict(f) == [type |-> "dict", val |-> f]

None == <<>>
Some(s) == <<s>>

\* f'{type(x)}'
TypeRepr(x) == "<class '" \o x.type \o "'>"

\* f'{x}' for the values that reach an f-string of the program
Format(x) == IF x.type = "int" THEN ToString(x.val) ELSE x.val

\* Truthy with a fault: `value is not None`, which lets '' through.
Truthy_not_none(value) == value # <<>>

\* bool(value) of an environment variable: None and '' are false
Truthy(value) == value # None /\ value # Some("")

\* ", ".join(keys)
RECURSIVE Join(_)
Join(keys) ==
    IF keys = <<>> THEN ""
    ELSE IF Len(keys) = 1 THEN keys[1]
    ELSE keys[1] \o ", " \o Join(Tail(keys))

(***************************************************************************)
(* A set of strings is iterated in the order of the hashes of its          *)
(* elements, which the interpreter fixes when it starts (hash              *)
(* randomisation).  `order` lists the keys in that order, and the missing  *)
(* keys are met in it.                                                     *)
(***************************************************************************)
MissingKeys(order, mapping) ==
    SelectSeq(order, LAMBDA k : k \notin DOMAIN mapping)

(***************************************************************************)
(* A call either returns a value or raises an exception, which has the     *)
(* name of its class and its argument.                                     *)
(***************************************************************************)
Return(v) == [raised |-> FALSE, val |-> v]
Raise(cls, msg) == [raised |-> TRUE, cls |-> cls, msg |-> msg]

\* str(error): a KeyError shows the repr of its argument, the others the
\* argument itself.  No message of the program holds a quote.
Str(error) ==
    IF error.cls = "KeyError" THEN "'" \o error.msg \o "'" ELSE error.msg

(***************************************************************************)
(* State.                                                                  *)
(*   PRACTICUM_TOKEN, TELEGRAM_TOKEN, TELEGRAM_CHAT_ID                     *)
(*              the module globals read from the environment (lines 14-16):*)
(*              None, or Some(text)                                        *)
(*   key_order  the iteration order of the two sets of required keys in    *)
(*              this run of the interpreter                                *)
(*   pc         where main() is: "start", "exited", "loop" (the top of     *)
(*              while True), "finally" (the try statement is left, the     *)
(*              finally clause not yet run), "crashed" (an exception has   *)
(*              left main)                                                 *)
(*   exit_code  the status of sys.exit, None while the process runs       *)
(*   timestamp, last_error                                                 *)
(*              the locals of main()                                       *)
(*   pending    the exception that the try statement re-raises after       *)
(*              finally, or None                                           *)
(* History variables, which no step of the program reads:                  *)
(*   cur        what the iteration that has reached "finally" did          *)
(*   prev       a summary of the iteration before it                       *)
(*   slept      the sleeps made since the latest poll                      *)
(*   fcall      for a function called on its own: its name, its argument   *)
(*              and its result                                             *)
(***************************************************************************)
VARIABLES PRACTICUM_TOKEN, TELEGRAM_TOKEN, TELEGRAM_CHAT_ID, key_order,
          pc, exit_code, timestamp, last_error, pending, cur, prev, slept,
          fcall

vars == <<PRACTICUM_TOKEN, TELEGRAM_TOKEN, TELEGRAM_CHAT_ID, key_order,
          pc, exit_code, timestamp, last_error, pending, cur, prev, slept,
          fcall>>

env == <<PRACTICUM_TOKEN, TELEGRAM_TOKEN, TELEGRAM_CHAT_ID, key_order>>

(***************************************************************************)
(* check_tokens(), lines 41-53.                                            *)
(***************************************************************************)
missing_tokens ==
    SelectSeq(<<[name |-> "PRACTICUM_TOKEN", value |-> PRACTICUM_TOKEN],
                [name |-> "TELEGRAM_TOKEN", value |-> TELEGRAM_TOKEN],
                [name |-> "TELEGRAM_CHAT_ID", value |-> TELEGRAM_CHAT_ID]>>,
              LAMBDA t : ~Truthy(t.value))

check_tokens == Len(missing_tokens) = 0

(***************************************************************************)
(* send_message(bot, message), lines 56-65.  `sent` is what the call       *)
(* bot.send_message(TELEGRAM_CHAT_ID, message) did: it returned, or raised *)
(* an exception of class sent.cls.  Only ApiTelegramException is caught;   *)
(* any other exception leaves send_message.                                *)
(***************************************************************************)
send_message(sent, message) ==
    IF sent.raised
    THEN IF sent.cls = "ApiTelegramException" THEN Return(FALSE) ELSE sent
    ELSE Return(TRUE)

(***************************************************************************)
(* get_api_answer(timestamp), lines 68-91.  `got` is what                  *)
(* requests.get(url, headers, params={'from_date': timestamp}) did: it     *)
(* raised a requests.RequestException, or returned a response with a       *)
(* status_code and a body, whose json() returns a value or raises.         *)
(***************************************************************************)
get_api_answer(got) ==
    IF got.raised
    THEN Raise("APIRequestError", TXT_REQUEST_FAILED \o got.msg)
    ELSE IF got.val.status_code # HTTP_OK
    THEN Raise("APIRequestError",
               TXT_ENDPOINT \o ENDPOINT \o TXT_UNAVAILABLE
               \o ToString(got.val.status_code))
    ELSE IF got.val.json.raised
    THEN Raise("ValueError", TXT_JSON_FAILED \o got.val.json.msg)
    ELSE Return(got.val.json.val)

\* check_response with a fault: the type of homeworks is checked before the
\* keys, with response.get('homeworks').
check_response_type_first(response, order) ==
    IF response.type # "dict"
    THEN Raise("InvalidResponseError", TXT_NOT_DICT \o TypeRepr(response))
    ELSE LET homeworks == IF "homeworks" \in DOMAIN response.val
                          THEN response.val["homeworks"]
                          ELSE [type |-> "NoneType", val |-> <<>>]
             missing_keys == MissingKeys(order, response.val)
         IN  IF homeworks.type # "list"
             THEN Raise("InvalidResponseError",
                        TXT_NOT_LIST \o TypeRepr(homeworks))
             ELSE IF Len(missing_keys) > 0
             THEN Raise("InvalidResponseError",
                        TXT_RESPONSE_KEYS \o Join(missing_keys))
             ELSE Return(homeworks)

(***************************************************************************)
(* check_response(response), lines 94-114.  `order` is the iteration order *)
(* of required_keys.                                                       *)
(***************************************************************************)
check_response(response, order) ==
    IF response.type # "dict"
    THEN Raise("InvalidResponseError", TXT_NOT_DICT \o TypeRepr(response))
    ELSE LET missing_keys == MissingKeys(order, response.val)
         IN  IF Len(missing_keys) > 0
             THEN Raise("InvalidResponseError",
                        TXT_RESPONSE_KEYS \o Join(missing_keys))
             ELSE LET homeworks == response.val["homeworks"]
                  IN  IF homeworks.type # "list"
                      THEN Raise("InvalidResponseError",
                                 TXT_NOT_LIST \o TypeRepr(homeworks))
                      ELSE Return(homeworks)

\* parse_status with a fault: the status is looked up, with
\* homework.get('status'), before the keys are checked.
parse_status_lookup_first(homework, order) ==
    LET missing_keys == MissingKeys(order, homework.val)
        status == IF "status" \in DOMAIN homework.val
                  THEN homework.val["status"]
                  ELSE PyStr("None")
    IN  IF status.val \notin DOMAIN HOMEWORK_VERDICTS
        THEN Raise("ValueError", TXT_UNKNOWN_STATUS \o Format(status))
        ELSE IF Len(missing_keys) > 0
        THEN Raise("KeyError", TXT_HOMEWORK_KEYS \o Join(missing_keys))
        ELSE Return(TXT_STATUS_CHANGED
                    \o Format(homework.val["homework_name"])
                    \o "\". " \o HOMEWORK_VERDICTS[status.val])

\* parse_status with a fault: the message names the status, not the homework.
parse_status_status(homework, order) ==
    LET missing_keys == MissingKeys(order, homework.val)
    IN  IF Len(missing_keys) > 0
        THEN Raise("KeyError", TXT_HOMEWORK_KEYS \o Join(missing_keys))
        ELSE LET status == homework.val["status"]
             IN  IF status.val \notin DOMAIN HOMEWORK_VERDICTS
                 THEN Raise("ValueError",
                            TXT_UNKNOWN_STATUS \o Format(status))
                 ELSE Return(TXT_STATUS_CHANGED \o Format(status)
                             \o "\". " \o HOMEWORK_VERDICTS[status.val])

(***************************************************************************)
(* parse_status(homework), lines 117-131.  `homework` is a dict whose      *)
(* values are strings; `order` is the iteration order of required_keys.    *)
(***************************************************************************)
parse_status(homework, order) ==
    LET missing_keys == MissingKeys(order, homework.val)
    IN  IF Len(missing_keys) > 0
        THEN Raise("KeyError", TXT_HOMEWORK_KEYS \o Join(missing_keys))
        ELSE LET status == homework.val["status"]
             IN  IF status.val \notin DOMAIN HOMEWORK_VERDICTS
                 THEN Raise("ValueError",
                            TXT_UNKNOWN_STATUS \o Format(status))
                 ELSE Return(TXT_STATUS_CHANGED
                             \o Format(homework.val["homework_name"])
                             \o "\". " \o HOMEWORK_VERDICTS[status.val])

(***************************************************************************)
(* main(), lines 134-167.                                                  *)
(*                                                                         *)
(* The body of the try statement, lines 145-154.  `sent` is what the       *)
(* messaging call does if this body makes one.  The result gives the       *)
(* exception that left the body (None if none did), the value of           *)
(* timestamp after it, and what it did: the results of the calls it made   *)
(* (None for a call not made) and the messages it handed to the bot.       *)
(***************************************************************************)
\* AdvanceCursor with a fault: the cursor is never moved.
AdvanceCursor_keep(response, ts) == ts

\* line 154: response.get('current_date', timestamp), response a dict
AdvanceCursor(response, ts) ==
    IF "current_date" \in DOMAIN response.val
    THEN response.val["current_date"]
    ELSE ts

Call(kind, message, sent) ==
    [kind |-> kind, message |-> message, sent |-> sent,
     result |-> send_message(sent, message)]

(***************************************************************************)
(* The try body with one fault, named by `fault`:                          *)
(*   "keep_if_undelivered"  line 154 runs only if send_message returned    *)
(*                          True;                                          *)
(*   "skip_empty"           line 154 is inside `if homeworks:`;            *)
(*   "reset_on_failure"     a failed request sets the cursor to 0.         *)
(***************************************************************************)
TryBody_faulty(fault, ts, got, sent, order) ==
    LET response == get_api_answer(got)
        base == [api |-> Some(response), checked |-> <<>>, parsed |-> <<>>,
                 calls |-> <<>>, error |-> <<>>, timestamp |-> ts]
    IN  IF response.raised
        THEN [base EXCEPT !.error = Some(response),
                          !.timestamp = IF fault = "reset_on_failure"
                                        THEN PyInt(0) ELSE ts]
        ELSE
        LET homeworks == check_response(response.val, order.response)
            b1 == [base EXCEPT !.checked = Some(homeworks)]
            new_ts == AdvanceCursor(response.val, ts)
        IN  IF homeworks.raised
            THEN [b1 EXCEPT !.error = Some(homeworks)]
            ELSE IF Len(homeworks.val.val) > 0
            THEN LET message == parse_status(homeworks.val.val[1],
                                             order.homework)
                     b2 == [b1 EXCEPT !.parsed = Some(message)]
                 IN  IF message.raised
                     THEN [b2 EXCEPT !.error = Some(message)]
                     ELSE LET call == Call("status", message.val, sent)
                              b3 == [b2 EXCEPT !.calls = <<call>>]
                          IN  IF call.result.raised
                              THEN [b3 EXCEPT !.error = Some(call.result)]
                              ELSE IF fault = "keep_if_undelivered"
                                      /\ ~call.result.val
                              THEN b3
                              ELSE [b3 EXCEPT !.timestamp = new_ts]
            ELSE IF fault = "skip_empty"
                 THEN b1
                 ELSE [b1 EXCEPT !.timestamp = new_ts]

TryBody_keep_if_undelivered(ts, got, sent, order) ==
    TryBody_faulty("keep_if_undelivered", ts, got, sent, order)

TryBody_skip_empty(ts, got, sent, order) ==
    TryBody_faulty("skip_empty", ts, got, sent, order)

TryBody_reset_on_failure(ts, got, sent, order) ==
    TryBody_faulty("reset_on_failure", ts, got, sent, order)

\* lines 145-154: the try body of one pass, up to the exception it raises
TryBody(ts, got, sent, order) ==
    LET response == get_api_answer(got)
        base == [api |-> Some(response), checked |-> None, parsed |-> None,
                 calls |-> <<>>, error |-> None, timestamp |-> ts]
    IN  IF response.raised
        THEN [base EXCEPT !.error = Some(response)]
        ELSE
        LET homeworks == check_response(response.val, order.response)
            b1 == [base EXCEPT !.checked = Some(homeworks)]
            new_ts == AdvanceCursor(response.val, ts)
        IN  IF homeworks.raised
            THEN [b1 EXCEPT !.error = Some(homeworks)]
            ELSE IF Len(homeworks.val.val) > 0
            THEN LET message == parse_status(homeworks.val.val[1],
                                             order.homework)
                     b2 == [b1 EXCEPT !.parsed = Some(message)]
                 IN  IF message.raised
                     THEN [b2 EXCEPT !.error = Some(message)]
                     ELSE LET call == Call("status", message.val, sent)
                              b3 == [b2 EXCEPT !.calls = <<call>>]
                          IN  IF call.result.raised
                              THEN [b3 EXCEPT !.error = Some(call.result)]
                              ELSE [b3 EXCEPT !.timestamp = new_ts]
            ELSE [b1 EXCEPT !.timestamp = new_ts]

\* ExceptClause with a fault: only the first error of the process is
\* notified (the test is `last_error is None`).
ExceptClause_once(error, last, sent) ==
    LET error_message == TXT_FAILURE \o Str(error)
        call == Call("error", error_message, sent)
    IN  IF last = <<>>
        THEN [calls |-> <<call>>,
              last_error |-> IF ~call.result.raised /\ call.result.val
                             THEN Some(Str(error))
                             ELSE last,
              pending |-> IF call.result.raised
                          THEN Some(call.result)
                          ELSE <<>>]
        ELSE [calls |-> <<>>, last_error |-> last, pending |-> <<>>]

\* ExceptClause with a fault: last_error is updated whatever send_message
\* returned.
ExceptClause_unconditional(error, last, sent) ==
    LET error_message == TXT_FAILURE \o Str(error)
        call == Call("error", error_message, sent)
    IN  IF Some(Str(error)) # last
        THEN [calls |-> <<call>>,
              last_error |-> IF ~call.result.raised
                             THEN Some(Str(error))
                             ELSE last,
              pending |-> IF call.result.raised
                          THEN Some(call.result)
                          ELSE <<>>]
        ELSE [calls |-> <<>>, last_error |-> last, pending |-> <<>>]

\* ExceptClause with a fault: the text compared with last_error is
\* error_message, which never equals a stored str(error).
ExceptClause_message(error, last, sent) ==
    LET error_message == TXT_FAILURE \o Str(error)
        call == Call("error", error_message, sent)
    IN  IF Some(error_message) # last
        THEN [calls |-> <<call>>,
              last_error |-> IF ~call.result.raised /\ call.result.val
                             THEN Some(Str(error))
                             ELSE last,
              pending |-> IF call.result.raised
                          THEN Some(call.result)
                          ELSE <<>>]
        ELSE [calls |-> <<>>, last_error |-> last, pending |-> <<>>]

(***************************************************************************)
(* The except clause, lines 156-164.  `sent` is what the messaging call    *)
(* does if the clause makes one.  The result gives the value of last_error *)
(* after it, the messages handed to the bot and the exception that left    *)
(* the clause (None if none did).                                          *)
(***************************************************************************)
ExceptClause(error, last, sent) ==
    LET error_message == TXT_FAILURE \o Str(error)
    IN  IF Some(Str(error)) # last
        THEN LET call == Call("error", error_message, sent)
             IN  [calls |-> <<call>>,
                  last_error |-> IF ~call.result.raised /\ call.result.val
                                 THEN Some(Str(error))
                                 ELSE last,
                  pending |-> IF call.result.raised
                              THEN Some(call.result)
                              ELSE None]
        ELSE [calls |-> <<>>, last_error |-> last, pending |-> None]

\* AfterTry with a fault: a pass without an exception forgets the reported
\* error (an else clause with last_error = None).
AfterTry_reset(error, last, sent) ==
    IF error = <<>>
    THEN [calls |-> <<>>, last_error |-> <<>>, pending |-> <<>>]
    ELSE ExceptClause(error[1], last, sent)

(***************************************************************************)
(* What follows the try body, lines 156-164: nothing if it raised no       *)
(* exception (`error` is None), the except clause otherwise.               *)
(***************************************************************************)
AfterTry(error, last, sent) ==
    IF error = None
    THEN [calls |-> <<>>, last_error |-> last, pending |-> None]
    ELSE ExceptClause(error[1], last, sent)

\* FinallyClause with a fault: the sleep follows the try statement, so a
\* pending exception skips it.
FinallyClause_after(exc) == IF exc = <<>> THEN <<RETRY_PERIOD>> ELSE <<>>

(***************************************************************************)
(* The finally clause, line 167: the sleeps made before the try statement  *)
(* is left, whether or not an exception is pending.                        *)
(***************************************************************************)
FinallyClause(exc) == <<RETRY_PERIOD>>

(***************************************************************************)
(* The environment: what the interpreter, the review API and the bot can   *)
(* do.                                                                     *)
(***************************************************************************)
\* the number of distinct integers the API returns as current_date
NumDates == 2
\* the largest number of homeworks that follow the first one in a response
MaxTail == 1

TokenValues == {None, Some(""), Some("token")}

KeyOrders ==
    {[response |-> r, homework |-> h] :
        r \in {<<"homeworks", "current_date">>,
               <<"current_date", "homeworks">>},
        h \in {<<"homework_name", "status">>,
               <<"status", "homework_name">>}}

\* int(time.time()) at line 140
StartTimes == {500}

HomeworkNames == {"proj1", "proj2"}
Statuses == {"approved", "reviewing", "rejected", "checked"}

Homework(name, status) ==
    PyDict([homework_name |-> PyStr(name), status |-> PyStr(status)])

\* every dict over a subset of the two required keys
HomeworkRecords ==
    {PyDict([k \in K |-> IF k = "homework_name" THEN PyStr(n) ELSE PyStr(s)]) :
        K \in SUBSET {"homework_name", "status"},
        n \in HomeworkNames, s \in Statuses}

\* the first records of the responses given to the loop: one with a known
\* status, one with an unknown status and one without a status
FirstRecords ==
    {Homework("proj1", "approved"), Homework("proj1", "checked"),
     PyDict([homework_name |-> PyStr("proj1")])}

\* the records that follow the first one: a well-formed one and an empty one
TailRecords == {Homework("proj2", "rejected"), PyDict(<<>>)}

RECURSIVE SeqsUpTo(_, _)
SeqsUpTo(S, n) ==
    IF n = 0 THEN {<<>>}
    ELSE LET shorter == SeqsUpTo(S, n - 1)
         IN  shorter \cup {Append(q, x) : q \in shorter, x \in S}

Lists(first) ==
    {<<>>} \cup {<<h>> \o t : h \in first, t \in SeqsUpTo(TailRecords, MaxTail)}

\* the values under 'homeworks': lists, and a dict where a list should be
HomeworksValues(first) == {PyList(q) : q \in Lists(first)} \cup {PyDict(<<>>)}

\* the values under 'current_date': integers, and a string
DateValues == {PyInt(1000 * i) : i \in 1..NumDates} \cup {PyStr("2024-01-01")}

\* the parsed bodies: dicts with or without each required key, and a list
Bodies(first) ==
    {PyDict([homeworks |-> h, current_date |-> d]) :
        h \in HomeworksValues(first), d \in DateValues}
    \cup {PyDict([homeworks |-> h]) : h \in HomeworksValues(first)}
    \cup {PyDict([current_date |-> d]) : d \in DateValues}
    \cup {PyDict([code |-> PyStr("not_authenticated")])}
    \cup {PyList(<<>>)}

\* what requests.get does
HttpOutcomes(first) ==
    {Raise("ConnectionError", "Connection refused"),
     Return([status_code |-> 500, json |-> Return(PyDict(<<>>))]),
     Return([status_code |-> 200,
             json |-> Raise("JSONDecodeError",
                            "Expecting value: line 1 column 1 (char 0)")])}
    \cup {Return([status_code |-> 200, json |-> Return(b)]) :
             b \in Bodies(first)}

\* what bot.send_message does: it delivers, the Telegram API rejects the
\* request, or the connection to Telegram fails
Delivered == Return("Message")

BotOutcomes ==
    {Delivered,
     Raise("ApiTelegramException", "Error code: 403. Forbidden"),
     Raise("ConnectionError", "Max retries exceeded")}

Unbound == [type |-> "unbound", val |-> 0]

NoIteration ==
    [from_date |-> None, api |-> None, checked |-> None, parsed |-> None,
     calls |-> <<>>, error |-> None]

NoCall == [fn |-> "", arg |-> None, result |-> None]

ErrorCalls(calls) == SelectSeq(calls, LAMBDA c : c.kind = "error")

\* send_message returned True
Notified(c) == ~c.result.raised /\ c.result.val

\* of an iteration: the text of the error it caught, the numbers of
\* notifications and of error notifications it attempted, and whether an
\* error notification returned True
Summary(it) ==
    [error |-> IF it.error = None THEN None ELSE Some(Str(it.error[1])),
     calls |-> Len(it.calls),
     error_calls |-> Len(ErrorCalls(it.calls)),
     notified |-> \E i \in 1..Len(it.calls) :
                     it.calls[i].kind = "error" /\ Notified(it.calls[i])]

(***************************************************************************)
(* The process.                                                            *)
(***************************************************************************)
Init ==
    /\ PRACTICUM_TOKEN \in TokenValues
    /\ TELEGRAM_TOKEN \in TokenValues
    /\ TELEGRAM_CHAT_ID \in TokenValues
    /\ key_order \in KeyOrders
    /\ pc = "start"
    /\ exit_code = None
    /\ timestamp = Unbound
    /\ last_error = None
    /\ pending = None
    /\ cur = NoIteration
    /\ prev = None
    /\ slept = <<>>
    /\ fcall = NoCall

\* lines 136-141
Start ==
    /\ pc = "start"
    /\ IF ~check_tokens
       THEN /\ pc' = "exited"
            /\ exit_code' = Some(1)
            /\ UNCHANGED <<timestamp, last_error>>
       ELSE /\ pc' = "loop"
            /\ timestamp' \in {PyInt(t) : t \in StartTimes}
            /\ last_error' = None
            /\ UNCHANGED exit_code
    /\ UNCHANGED <<env, pending, cur, prev, slept, fcall>>

\* lines 144-164: one pass through try and, if it raised, except.  The bot's
\* answers are drawn for the messaging calls that are made.
Iterate ==
    /\ pc = "loop"
    /\ \E got \in HttpOutcomes(FirstRecords) :
       \E sent1 \in IF Len(TryBody(timestamp, got, Delivered, key_order).calls) > 0
                    THEN BotOutcomes ELSE {Delivered} :
          LET try == TryBody(timestamp, got, sent1, key_order)
          IN  \E sent2 \in IF try.error # None /\ Some(Str(try.error[1])) # last_error
                           THEN BotOutcomes ELSE {Delivered} :
                 LET exc == AfterTry(try.error, last_error, sent2)
                 IN  /\ timestamp' = try.timestamp
                     /\ last_error' = exc.last_error
                     /\ pending' = exc.pending
                     /\ cur' = [from_date |-> Some(timestamp),
                                api |-> try.api,
                                checked |-> try.checked,
                                parsed |-> try.parsed,
                                calls |-> try.calls \o exc.calls,
                                error |-> try.error]
    /\ pc' = "finally"
    /\ slept' = <<>>
    /\ UNCHANGED <<env, exit_code, prev, fcall>>

\* line 167, then line 143 again or, with an exception pending, out of main
Sleep ==
    /\ pc = "finally"
    /\ slept' = slept \o FinallyClause(pending)
    /\ IF pending = None
       THEN pc' = "loop" /\ UNCHANGED exit_code
       ELSE pc' = "crashed" /\ exit_code' = Some(1)
    /\ prev' = Some(Summary(cur))
    /\ cur' = NoIteration
    /\ UNCHANGED <<env, timestamp, last_error, pending, fcall>>

Next == Start \/ Iterate \/ Sleep

Spec == Init /\ [][Next]_vars

(***************************************************************************)
(* The functions called on their own, on every argument of a bounded set:  *)
(* every body for check_response, every record for parse_status, every     *)
(* answer of the bot and two messages for send_message.                    *)
(***************************************************************************)
CallInputs ==
    {[fn |-> "check_response", arg |-> Some(b), result |-> None] :
        b \in Bodies(HomeworkRecords)}
    \cup {[fn |-> "parse_status", arg |-> Some(h), result |-> None] :
             h \in HomeworkRecords}
    \cup {[fn |-> "send_message",
            arg |-> Some([sent |-> o, message |-> m]), result |-> None] :
             o \in BotOutcomes, m \in {"", TXT_FAILURE \o "Read timed out"}}

InitCalls ==
    /\ PRACTICUM_TOKEN = Some("token")
    /\ TELEGRAM_TOKEN = Some("token")
    /\ TELEGRAM_CHAT_ID = Some("token")
    /\ key_order \in KeyOrders
    /\ pc = "call"
    /\ exit_code = None
    /\ timestamp = Unbound
    /\ last_error = None
    /\ pending = None
    /\ cur = NoIteration
    /\ prev = None
    /\ slept = <<>>
    /\ fcall \in CallInputs

Returned(result) ==
    /\ fcall' = [fcall EXCEPT !.result = Some(result)]
    /\ pc' = "returned"
    /\ UNCHANGED <<env, exit_code, timestamp, last_error, pending, cur, prev,
                   slept>>

CallCheckResponse ==
    /\ pc = "call" /\ fcall.fn = "check_response"
    /\ Returned(check_response(fcall.arg[1], key_order.response))

CallParseStatus ==
    /\ pc = "call" /\ fcall.fn = "parse_status"
    /\ Returned(parse_status(fcall.arg[1], key_order.homework))

CallSendMessage ==
    /\ pc = "call" /\ fcall.fn = "send_message"
    /\ Returned(send_message(fcall.arg[1].sent, fcall.arg[1].message))

NextCalls == CallCheckResponse \/ CallParseStatus \/ CallSendMessage

SpecCalls == InitCalls /\ [][NextCalls]_vars

(***************************************************************************)
(* Properties.                                                             *)
(***************************************************************************)
InLoop == pc \in {"loop", "finally", "crashed"}

\* C1: once the credential check has passed the loop never terminates on
\* its own: no failure raised in an iteration, the failure of an error
\* notification included, leaves the loop.
C1_LoopNeverTerminates == InLoop => pc # "crashed"

\* C2: send_message never propagates a failure of the bot's send, whether
\* the Telegram API rejects the request or the transport fails: it returns
\* False then, and True exactly when the send completed.
C2_SendNeverRaises ==
    pc = "returned" /\ fcall.fn = "send_message" =>
        LET sent == fcall.arg[1].sent
            result == fcall.result[1]
        IN  /\ ~result.raised
            /\ result.val = ~sent.raised


\* The two iterations of C3: the one that has reached "finally" and the one
\* before it both caught an error, with the same text.
SameErrorTwice ==
    /\ pc = "finally" /\ prev # None
    /\ cur.error # None
    /\ prev[1].error = Some(Str(cur.error[1]))

\* C3 as stated: two consecutive iterations failing with the same error text
\* trigger exactly one notification between them, whatever last_error was
\* before and whatever the delivery did.
C3_ExactlyOneNotification ==
    SameErrorTwice => prev[1].calls + Len(cur.calls) = 1

\* C3 as amended: if the first of the two iterations attempted its error
\* notification and send_message returned True, the two iterations attempt
\* exactly one error notification between them.
C3_OneErrorNotification ==
    SameErrorTwice /\ prev[1].notified =>
        prev[1].error_calls + Len(ErrorCalls(cur.calls)) = 1

C3_Witness == SameErrorTwice /\ prev[1].notified

\* The iteration received a dict with current_date from the API.
HasDate(it) ==
    /\ it.api # None
    /\ ~it.api[1].raised
    /\ it.api[1].val.type = "dict"
    /\ "current_date" \in DOMAIN it.api[1].val.val

DateOf(it) == it.api[1].val.val["current_date"]

\* C4 as stated: whenever the response contains current_date, the cursor
\* after the iteration is that current_date, whatever validation, formatting
\* and notification did.
C4_CursorAlwaysAdvances ==
    pc = "finally" /\ HasDate(cur) => timestamp = DateOf(cur)

\* C4 as amended: when the response contains current_date, the cursor after
\* the iteration is that current_date if the iteration raised no error
\* (whether or not a notification was made or delivered), and is unchanged
\* if validation, formatting or the notification raised.
C4_CursorAdvancesUnlessError ==
    pc = "finally" /\ HasDate(cur) =>
        IF cur.error = None
        THEN timestamp = DateOf(cur)
        ELSE timestamp = cur.from_date[1]

\* a status message that was not delivered, and the cursor moved all the same
C4_Witness ==
    /\ pc = "finally" /\ HasDate(cur) /\ cur.error = None
    /\ Len(cur.calls) = 1 /\ ~Notified(cur.calls[1])
    /\ timestamp = DateOf(cur) /\ timestamp # cur.from_date[1]

\* C5: every iteration, whether it succeeded, handled an error or let an
\* exception escape, sleeps RETRY_PERIOD exactly once after its work; no
\* poll is made unless that sleep has followed the poll before it.
C5_OneSleepPerIteration ==
    /\ pc = "finally" => slept = <<>>
    /\ pc \in {"loop", "crashed"} /\ prev # None => slept = <<RETRY_PERIOD>>

\* an iteration whose exception escaped has slept before main is left
C5_Witness == pc = "crashed" /\ slept = <<RETRY_PERIOD>> /\ pending # None

AllTokensSet ==
    /\ PRACTICUM_TOKEN \notin {None, Some("")}
    /\ TELEGRAM_TOKEN \notin {None, Some("")}
    /\ TELEGRAM_CHAT_ID \notin {None, Some("")}

\* C6: with a credential absent or empty the process exits with a non-zero
\* status before the loop and makes no poll and no notification; the loop
\* is entered only with all three credentials non-empty.
C6_StartupCheck ==
    /\ InLoop => AllTokensSet
    /\ pc # "start" /\ ~AllTokensSet =>
          /\ pc = "exited"
          /\ exit_code # None /\ exit_code[1] # 0
          /\ cur = NoIteration /\ prev = None
    /\ pc = "exited" => ~AllTokensSet

\* TELEGRAM_CHAT_ID alone is missing, and the process has exited
C6_Witness ==
    /\ pc = "exited"
    /\ PRACTICUM_TOKEN = Some("token") /\ TELEGRAM_TOKEN = Some("token")
    /\ TELEGRAM_CHAT_ID = None

\* The response of C7: the first homework is proj1, approved, and
\* current_date is 1000.
Proj1Approved(it) ==
    /\ HasDate(it) /\ DateOf(it) = PyInt(1000)
    /\ "homeworks" \in DOMAIN it.api[1].val.val
    /\ LET homeworks == it.api[1].val.val["homeworks"]
       IN  /\ homeworks.type = "list"
           /\ Len(homeworks.val) > 0
           /\ DOMAIN homeworks.val[1].val = {"homework_name", "status"}
           /\ homeworks.val[1].val["homework_name"] = PyStr("proj1")
           /\ homeworks.val[1].val["status"] = PyStr("approved")

\* 'Changed review status of "proj1". Работа проверена: ревьюеру всё понравилось. Ура!'
C7_ClaimedMessage ==
    "Changed review status of \"proj1\". "
    \o "\\u0420\\u0430\\u0431\\u043e\\u0442\\u0430 "
    \o "\\u043f\\u0440\\u043e\\u0432\\u0435\\u0440\\u0435\\u043d\\u0430: "
    \o "\\u0440\\u0435\\u0432\\u044c\\u044e\\u0435\\u0440\\u0443 "
    \o "\\u0432\\u0441\\u0451 "
    \o "\\u043f\\u043e\\u043d\\u0440\\u0430\\u0432\\u0438\\u043b\\u043e\\u0441\\u044c. "
    \o "\\u0423\\u0440\\u0430!"

\* 'Изменился статус проверки работы "proj1". Работа проверена: ревьюеру всё понравилось. Ура!'
C7_Message ==
    "\\u0418\\u0437\\u043c\\u0435\\u043d\\u0438\\u043b\\u0441\\u044f "
    \o "\\u0441\\u0442\\u0430\\u0442\\u0443\\u0441 "
    \o "\\u043f\\u0440\\u043e\\u0432\\u0435\\u0440\\u043a\\u0438 "
    \o "\\u0440\\u0430\\u0431\\u043e\\u0442\\u044b \"proj1\". "
    \o "\\u0420\\u0430\\u0431\\u043e\\u0442\\u0430 "
    \o "\\u043f\\u0440\\u043e\\u0432\\u0435\\u0440\\u0435\\u043d\\u0430: "
    \o "\\u0440\\u0435\\u0432\\u044c\\u044e\\u0435\\u0440\\u0443 "
    \o "\\u0432\\u0441\\u0451 "
    \o "\\u043f\\u043e\\u043d\\u0440\\u0430\\u0432\\u0438\\u043b\\u043e\\u0441\\u044c. "
    \o "\\u0423\\u0440\\u0430!"

\* C7 as stated: for that response the loop notifies exactly the message
\* 'Changed review status of "proj1". ' followed by the verdict of approved,
\* and the cursor becomes 1000.
C7_NotifiesClaimedMessage ==
    pc = "finally" /\ Proj1Approved(cur) =>
        /\ Len(cur.calls) = 1
        /\ cur.calls[1].message = C7_ClaimedMessage
        /\ timestamp = PyInt(1000)

\* C7 as amended: for that response the loop's notification carries the
\* message the program builds, with its own opening words; if send_message
\* returns, it is the only notification and the cursor becomes 1000, and if
\* send_message raises the cursor is unchanged.  Every message parse_status
\* returns is those opening words, the homework's name between quotes, a
\* full stop and the verdict of its status.
C7_NotifiesStatusMessage ==
    /\ pc = "finally" /\ Proj1Approved(cur) =>
          /\ Len(cur.calls) >= 1
          /\ cur.calls[1].kind = "status"
          /\ cur.calls[1].message = C7_Message
          /\ IF cur.calls[1].result.raised
             THEN timestamp = cur.from_date[1]
             ELSE Len(cur.calls) = 1 /\ timestamp = PyInt(1000)
    /\ pc = "finally" /\ cur.parsed # None /\ ~cur.parsed[1].raised =>
          LET homework == cur.checked[1].val.val[1].val
          IN  cur.parsed[1].val =
                 TXT_STATUS_CHANGED \o homework["homework_name"].val
                 \o "\". " \o HOMEWORK_VERDICTS[homework["status"].val]

C7_Witness ==
    /\ pc = "finally" /\ Proj1Approved(cur)
    /\ Len(cur.calls) = 1 /\ Notified(cur.calls[1])
    /\ cur.calls[1].message = C7_Message
    /\ timestamp = PyInt(1000)


\* every order in which the elements of S can be named
Orderings(S) ==
    {q \in [1..Cardinality(S) -> S] : \A x \in S : \E i \in DOMAIN q : q[i] = x}

CalledWith(fn) == pc = "returned" /\ fcall.fn = fn

MissingFrom(mapping, required) == required \ DOMAIN mapping.val

\* C8: for a dict that lacks homeworks, current_date or both, check_response
\* raises InvalidResponseError with a message that names the missing keys
\* and no other, also when the value under homeworks is not a list.
C8_MissingKeysNamed ==
    CalledWith("check_response") /\ fcall.arg[1].type = "dict" =>
        LET missing == MissingFrom(fcall.arg[1], {"homeworks", "current_date"})
            result == fcall.result[1]
        IN  missing # {} =>
               /\ result.raised
               /\ result.cls = "InvalidResponseError"
               /\ result.msg \in {TXT_RESPONSE_KEYS \o Join(q) :
                                     q \in Orderings(missing)}

\* homeworks is not a list and current_date is missing: the keys are reported
C8_Witness ==
    /\ CalledWith("check_response")
    /\ DOMAIN fcall.arg[1].val = {"homeworks"}
    /\ fcall.arg[1].val["homeworks"].type = "dict"
    /\ fcall.result[1].raised
    /\ fcall.result[1].msg = TXT_RESPONSE_KEYS \o "current_date"

C9_Verdict(status) ==
    CASE status = "approved" -> VERDICT_APPROVED
      [] status = "reviewing" -> VERDICT_REVIEWING
      [] status = "rejected" -> VERDICT_REJECTED

\* C9: for a record with both keys, parse_status returns a message that ends
\* with the sentence of the status if the status is approved, reviewing or
\* rejected, and otherwise raises ValueError with a message that carries the
\* status.
C9_VerdictOrUnknownStatus ==
    CalledWith("parse_status")
    /\ MissingFrom(fcall.arg[1], {"homework_name", "status"}) = {} =>
        LET name == fcall.arg[1].val["homework_name"].val
            status == fcall.arg[1].val["status"].val
            result == fcall.result[1]
        IN  IF status \in {"approved", "reviewing", "rejected"}
            THEN /\ ~result.raised
                 /\ result.val = TXT_STATUS_CHANGED \o name \o "\". "
                                 \o C9_Verdict(status)
            ELSE /\ result.raised
                 /\ result.cls = "ValueError"
                 /\ result.msg = TXT_UNKNOWN_STATUS \o status

C9_Witness ==
    /\ CalledWith("parse_status")
    /\ fcall.arg[1] = Homework("proj2", "rejected")
    /\ ~fcall.result[1].raised
    /\ fcall.result[1].val = TXT_STATUS_CHANGED \o "proj2" \o "\". "
                             \o VERDICT_REJECTED

\* C10: for a record that lacks homework_name, status or both, parse_status
\* raises KeyError with a message that names the missing keys and no other;
\* the status is not looked up, so no such record gives ValueError.
C10_MissingFieldNamed ==
    CalledWith("parse_status") =>
        LET missing == MissingFrom(fcall.arg[1], {"homework_name", "status"})
            result == fcall.result[1]
        IN  missing # {} =>
               /\ result.raised
               /\ result.cls = "KeyError"
               /\ result.msg \in {TXT_HOMEWORK_KEYS \o Join(q) :
                                     q \in Orderings(missing)}

\* a record with an unknown status and no name: the name is reported
C10_Witness ==
    /\ CalledWith("parse_status")
    /\ DOMAIN fcall.arg[1].val = {"status"}
    /\ fcall.arg[1].val["status"] = PyStr("checked")
    /\ fcall.result[1].raised
    /\ fcall.result[1].cls = "KeyError"
    /\ fcall.result[1].msg = TXT_HOMEWORK_KEYS \o "homework_name"


\* a step that is one iteration: try and, if it raised, except
IterStep == pc = "loop" /\ pc' = "finally"

\* the text of the error an iteration caught (it caught one)
ErrorText(it) == Str(it.error[1])

\* an error notification for which send_message returned False
Undelivered(c) == c.kind = "error" /\ ~c.result.raised /\ ~c.result.val

\* C11: last_error changes only in an iteration that caught an error whose
\* text differed from it and whose error notification returned True, and
\* then it is that text; when the error notification returns False it is
\* unchanged, and an iteration that then catches the same text notifies
\* again.
C11_LastErrorUpdate ==
    /\ [][last_error' # last_error =>
             /\ IterStep
             /\ cur'.error # None
             /\ Some(ErrorText(cur')) # last_error
             /\ Summary(cur').notified
             /\ last_error' = Some(ErrorText(cur'))]_vars
    /\ [][IterStep /\ (\E i \in 1..Len(cur'.calls) : Undelivered(cur'.calls[i]))
             => last_error' = last_error]_vars
    /\ [](SameErrorTwice /\ prev[1].error_calls = 1 /\ ~prev[1].notified
             => Len(ErrorCalls(cur.calls)) = 1)

\* the same text twice, the first notification not delivered, the second made
C11_Witness ==
    /\ SameErrorTwice
    /\ prev[1].error_calls = 1 /\ ~prev[1].notified
    /\ Len(ErrorCalls(cur.calls)) = 1
    /\ last_error = Some(ErrorText(cur))


\* C12: in an iteration that catches an error whose text equals last_error,
\* no notification call is made and last_error is unchanged.
C12_NoCallOnRepeatedError ==
    [][IterStep /\ cur'.error # None /\ Some(ErrorText(cur')) = last_error
          => Len(cur'.calls) = 0 /\ last_error' = last_error]_vars

\* the error notifications of an iteration that carry its error text
CarriesErrorText(it) ==
    {i \in 1..Len(it.calls) :
        /\ it.calls[i].kind = "error"
        /\ it.calls[i].message = TXT_FAILURE \o ErrorText(it)}

\* two iterations in a row caught errors with different texts
AlternatingErrors ==
    /\ pc = "finally"
    /\ prev # None /\ prev[1].error # None
    /\ cur.error # None
    /\ prev[1].error # Some(ErrorText(cur))

\* C13: an iteration that catches an error whose text differs from last_error
\* attempts, in that iteration, a notification that carries the text; so when
\* two iterations in a row fail with different texts and the notification of
\* the first returned True, the second attempts a notification too.
C13_NotifiesChangedError ==
    /\ [][IterStep /\ cur'.error # None /\ Some(ErrorText(cur')) # last_error
             => CarriesErrorText(cur') # {}]_vars
    /\ [](AlternatingErrors /\ prev[1].notified
             => CarriesErrorText(cur) # {})

C13_Witness ==
    /\ AlternatingErrors /\ prev[1].notified
    /\ \E i \in CarriesErrorText(cur) : Notified(cur.calls[i])
    /\ last_error = Some(ErrorText(cur))

\* the status notifications of an iteration for which send_message returned
\* False
StatusUndelivered(it) ==
    {i \in 1..Len(it.calls) :
        /\ it.calls[i].kind = "status"
        /\ ~it.calls[i].result.raised /\ ~it.calls[i].result.val}

\* the first homework of the response an iteration received (it has one)
FirstHomework(it) == it.api[1].val.val["homeworks"].val[1]

\* every status notification of an iteration carries the message of the
\* first homework of the response received in that same iteration
StatusFromOwnResponse(it) ==
    \A i \in 1..Len(it.calls) :
        it.calls[i].kind = "status" =>
            /\ it.api # None /\ ~it.api[1].raised
            /\ it.api[1].val.type = "dict"
            /\ "homeworks" \in DOMAIN it.api[1].val.val
            /\ it.api[1].val.val["homeworks"].type = "list"
            /\ Len(it.api[1].val.val["homeworks"].val) > 0
            /\ LET message == parse_status(FirstHomework(it),
                                           key_order.homework)
               IN  ~message.raised /\ it.calls[i].message = message.val

\* C14: when send_message returns False for a status message the iteration
\* raises no error: the cursor becomes current_date, the status call is the
\* only call (no error notification), last_error is unchanged; and a status
\* message is only ever sent for the first homework of the response of the
\* iteration that sends it, so an undelivered one is not sent again unless
\* the API returns that homework again.
C14_UndeliveredStatusIsSuccess ==
    /\ [][IterStep /\ StatusUndelivered(cur') # {}
             => /\ cur'.error = None
                /\ pending' = None
                /\ HasDate(cur') /\ timestamp' = DateOf(cur')
                /\ Len(cur'.calls) = 1
                /\ last_error' = last_error]_vars
    /\ [](pc = "finally" => StatusFromOwnResponse(cur))

C14_Witness ==
    /\ pc = "finally"
    /\ StatusUndelivered(cur) # {}
    /\ cur.from_date # Some(timestamp)
    /\ timestamp = DateOf(cur)
    /\ last_error # None

\* the homeworks of an iteration passed check_response, the list is not empty
\* and parse_status returned a message for its first element
FormatsFirst(it) ==
    /\ it.checked # None /\ ~it.checked[1].raised
    /\ Len(it.checked[1].val.val) > 0
    /\ it.parsed # None /\ ~it.parsed[1].raised

\* C15: in an iteration whose validated homeworks list is not empty and whose
\* first element formats, exactly one notification is attempted, with the
\* message of the first element, and the iteration raises no error whatever
\* the later elements are.
C15_ExactlyOneNotification ==
    pc = "finally" /\ FormatsFirst(cur)
        => /\ Len(cur.calls) = 1
           /\ cur.calls[1].message = cur.parsed[1].val
           /\ cur.parsed[1] = parse_status(cur.checked[1].val.val[1],
                                           key_order.homework)

\* the API answered an iteration with a dict that has both keys and an empty
\* list of homeworks
EmptyValid(it) ==
    /\ HasDate(it)
    /\ "homeworks" \in DOMAIN it.api[1].val.val
    /\ it.api[1].val.val["homeworks"] = PyList(<<>>)

\* C16: in an iteration where the API returns a valid response with an empty
\* list of homeworks and current_date = d, no notification call is made,
\* last_error is unchanged and the cursor becomes d.
C16_EmptyHomeworks ==
    [][IterStep /\ EmptyValid(cur')
          => /\ Len(cur'.calls) = 0
             /\ cur'.error = None
             /\ last_error' = last_error
             /\ timestamp' = DateOf(cur')]_vars

C16_Witness ==
    /\ pc = "finally"
    /\ EmptyValid(cur)
    /\ cur.from_date = Some(PyInt(1000))
    /\ timestamp = PyInt(2000)
    /\ last_error # None
    /\ Len(cur.calls) = 0

\* get_api_answer raised in an iteration: the request failed, the HTTP status
\* was not 200 or the body was not JSON
ApiFailed(it) == it.api # None /\ it.api[1].raised

\* C17: in an iteration where get_api_answer fails or the response does not
\* contain current_date, the cursor after the iteration is the cursor before
\* it; the sleep leaves it alone and every poll is made with the cursor as
\* from_date, so the next poll is made with the same from_date.
C17_CursorKept ==
    /\ [][IterStep /\ (ApiFailed(cur') \/ ~HasDate(cur'))
             => timestamp' = timestamp]_vars
    /\ [][IterStep => cur'.from_date = Some(timestamp)]_vars
    /\ [][pc = "finally" => timestamp' = timestamp]_vars

C17_Witness ==
    /\ pc = "finally"
    /\ ApiFailed(cur)
    /\ prev # None /\ prev[1].error # None
    /\ cur.from_date = Some(PyInt(1000))
    /\ timestamp = PyInt(1000)

\* C18: in every state of the loop the cursor is an integer: a current_date
\* that is not an integer never becomes the cursor.
C18_CursorIsInteger ==
    pc \in {"loop", "finally"} => timestamp.type = "int"

\* C19: an iteration that raises no error leaves last_error unchanged, and so
\* does the sleep; hence an error text that was notified is still the value
\* of last_error after any number of successful iterations, and an iteration
\* that then fails with that text sends no notification.
C19_SuccessKeepsLastError ==
    /\ [][IterStep /\ cur'.error = None => last_error' = last_error]_vars
    /\ [][pc = "finally" => last_error' = last_error]_vars
    /\ [][IterStep /\ cur'.error # None /\ Some(ErrorText(cur')) = last_error
             => \A i \in 1..Len(cur'.calls) :
                   /\ cur'.calls[i].kind # "error"
                   /\ ~Notified(cur'.calls[i])]_vars

C19_Witness ==
    /\ pc = "finally"
    /\ prev # None /\ prev[1].error = None
    /\ cur.error # None
    /\ last_error = Some(ErrorText(cur))
    /\ Len(cur.calls) = 0

\* C20: in every iteration at most one call to the bot is made, a status
\* notification or an error notification, never both.
C20_AtMostOneCall ==
    pc = "finally" => Len(cur.calls) <= 1

====
